---------------------------- MODULE Spec2Model ----------------------------
(***************************************************************************)
(* Model of the maximum-flow engine of maxflow.hpp: the ResidualNetwork    *)
(* builder, get_flow_arcs, edmonds_karp and DinitzCherkassky.              *)
(*                                                                         *)
(* Pointers and iterators into the adjlist arena are modelled as 1-based   *)
(* positions in the arena (0 is nullptr); the arena is never reallocated   *)
(* after construction, so a position denotes the same record throughout.   *)
(* node_t and flow_t are std::uint32_t in the source.  TLC's integers are  *)
(* 32-bit signed, so both are modelled as unsigned words of WordBits bits; *)
(* every operation the source performs in the unsigned type is taken       *)
(* modulo 2^WordBits here, exactly as the source takes it modulo 2^32.     *)
(***************************************************************************)
EXTENDS Integers, Sequences, FiniteSets, TLC

VARIABLES
    network,          \* the FlowNetwork given to both solvers
    pc,               \* position of the driver / of the running solver
    ek_rnetwork,      \* edmonds_karp: ResidualNetwork rnetwork
    ek_bfs_ordering,  \* edmonds_karp: bfs_ordering
    ek_pred,          \* edmonds_karp: pred
    ek_maxflow,       \* edmonds_karp: maxflow
    ek_result,        \* the Flow edmonds_karp returned
    dc_rnetwork,      \* DinitzCherkassky::rnetwork
    dc_current_arc,   \* DinitzCherkassky::current_arc
    dc_rank,          \* DinitzCherkassky::rank
    dc_bfs_ordering,  \* DinitzCherkassky::bfs_ordering
    dc_maxflow,       \* operator(): maxflow
    dc_df,            \* operator(): df
    dc_result,        \* the Flow operator() returned
    phases            \* history: number of phases operator() has entered

vars == <<network, pc, ek_rnetwork, ek_bfs_ordering, ek_pred, ek_maxflow,
          ek_result, dc_rnetwork, dc_current_arc, dc_rank, dc_bfs_ordering,
          dc_maxflow, dc_df, dc_result, phases>>

ek_vars == <<ek_rnetwork, ek_bfs_ordering, ek_pred, ek_maxflow, ek_result>>

dc_vars == <<dc_rnetwork, dc_current_arc, dc_rank, dc_bfs_ordering,
             dc_maxflow, dc_df, dc_result, phases>>

---------------------------------------------------------------------------
(* Bounds of the model. *)

\* width, in bits, of the model's node_t and flow_t
WordBits == 5
\* most vertices of an enumerated network
MaxN == 2
\* most arcs of an enumerated network
MaxM == 2
\* enumerated capacities are 0..MaxCap, and the largest flow_t value
MaxCap == 1

---------------------------------------------------------------------------
(* Unsigned arithmetic. *)

RECURSIVE Pow2(_)
Pow2(k) == IF k = 0 THEN 1 ELSE 2 * Pow2(k - 1)

WordMod == Pow2(WordBits)

UIntMax == WordMod - 1

Wrap(x) == x % WordMod

Min(a, b) == IF a < b THEN a ELSE b

Unreached == UIntMax

InfiniteFlow == UIntMax

---------------------------------------------------------------------------
(* FlowNetwork values. *)

CapacityArc(u, v, c) == [tail |-> u, head |-> v, capacity |-> c]

FlowNetwork(n, s, t, arcs) ==
    [n |-> n, m |-> Len(arcs), source |-> s, sink |-> t, arcs |-> arcs]

minimal_example ==
    FlowNetwork(6, 0, 5,
        << CapacityArc(0, 1, 10), CapacityArc(0, 2, 10), CapacityArc(1, 2, 2),
           CapacityArc(1, 3, 4),  CapacityArc(1, 4, 8),  CapacityArc(2, 4, 9),
           CapacityArc(3, 5, 10), CapacityArc(4, 3, 6),  CapacityArc(4, 5, 10) >>)

Nodes(net) == 0 .. (net.n - 1)

\* the networks the solvers are run on: every network of at most MaxN
\* vertices and MaxM arcs without self-loops with any source and sink (with
\* source = sink, of fewer than MaxM arcs), the worked example of main.cpp
\* with any source and sink, and the networks of CancellationNetworks.
\* Every capacity is representable in flow_t.
Capacities == (0 .. Min(MaxCap, UIntMax)) \cup {UIntMax}

ArcChoices(n) ==
    { CapacityArc(u, v, c) : u \in 0 .. (n - 1), v \in 0 .. (n - 1),
                             c \in Capacities } \
    { CapacityArc(u, u, c) : u \in 0 .. (n - 1), c \in Capacities }

ExampleNetworks ==
    { [minimal_example EXCEPT !.source = s, !.sink = t] :
        s \in Nodes(minimal_example), t \in Nodes(minimal_example) }

\* a network on which a later augmenting path must undo flow pushed on arc
\* 1 -> 2 by an earlier one (0 -> 1 -> 2 -> 5, then 0 -> 3 -> 2 -> 1 -> 4 -> 5),
\* with every choice of nonzero capacities
CancellationNetworks ==
    { FlowNetwork(6, 0, 5,
        << CapacityArc(0, 1, c[1]), CapacityArc(1, 2, c[2]), CapacityArc(2, 5, c[3]),
           CapacityArc(0, 3, c[4]), CapacityArc(3, 2, c[5]), CapacityArc(1, 4, c[6]),
           CapacityArc(4, 5, c[7]) >>) :
        c \in [1 .. 7 -> Capacities \ {0}] }

IsInput(net) ==
    \/ net \in ExampleNetworks
    \/ net \in CancellationNetworks
    \/ \E n \in 2 .. MaxN, k \in 0 .. MaxM :
          \E s \in 0 .. (n - 1), t \in 0 .. (n - 1), arcs \in [1 .. k -> ArcChoices(n)] :
             /\ s = t => k < MaxM
             /\ net = FlowNetwork(n, s, t, arcs)

\* the structural assumptions of the algorithms (spec 3 and 7)
ValidNetwork(net) ==
    /\ net.source # net.sink
    /\ \A k \in 1 .. Len(net.arcs) :
          /\ net.arcs[k].tail \in Nodes(net)
          /\ net.arcs[k].head \in Nodes(net)
          /\ net.arcs[k].tail # net.arcs[k].head

---------------------------------------------------------------------------
(* ResidualArc and ResidualNetwork. *)

\* F applied to the value of e.  The loops of the source are recursions
\* here, and each turn is handed the values the turn before computed.
Let(e, F(_)) == CHOOSE y \in { F(v) : v \in {e} } : TRUE

ResidualArc(h, rc, tw) == [head |-> h, residual_capacity |-> rc, twin |-> tw]

\* ResidualArc::tail of the record at position a
tail(R, a) == R.adjlist[R.adjlist[a].twin].head

is_saturated(arc) == arc.residual_capacity = 0

is_residual_strict(arc) == arc.residual_capacity > 1

is_residual(arc) == ~is_saturated(arc)

push_flow_one_sided(R, a, flow) ==
    [R EXCEPT !.adjlist[a].residual_capacity = Wrap(@ - flow),
              !.overdrawn = @ \/ flow > R.adjlist[a].residual_capacity]

\* ResidualArc::push_flow on the record at position a.  overdrawn is a
\* history flag: some push asked for more than the arc's residual capacity.
push_flow(R, a, flow) ==
    [R EXCEPT !.adjlist[a].residual_capacity = Wrap(@ - flow),
              !.adjlist[R.adjlist[a].twin].residual_capacity = Wrap(@ + flow),
              !.overdrawn = @ \/ flow > R.adjlist[a].residual_capacity]

\* the first pass of the constructor
degree_out(net) ==
    [u \in Nodes(net) |->
        Cardinality({k \in 1 .. Len(net.arcs) : net.arcs[k].tail = u})
      + Cardinality({k \in 1 .. Len(net.arcs) : net.arcs[k].head = u})]

\* the second pass: adjlist_iter[u], the first position of u's range, and
\* adjlist_iter[n], one past the last range
RECURSIVE first_iter(_, _, _)
first_iter(net, degree, u) ==
    IF u = 0 THEN 1 ELSE first_iter(net, degree, u - 1) + degree[u - 1]

adjlist_iter(net) ==
    Let(degree_out(net), LAMBDA degree : [u \in 0 .. net.n |-> first_iter(net, degree, u)])

\* the third pass, from arc k on.  st.fwd is a history sequence: the
\* position the forward copy of each arc was written to.
RECURSIVE fill_adjlist(_, _, _)
fill_adjlist(net, k, st) ==
    IF k > Len(net.arcs) THEN st
    ELSE LET u  == net.arcs[k].tail
             v  == net.arcs[k].head
             c  == net.arcs[k].capacity
             a1 == [st.adjlist EXCEPT ![st.iter[u]] = ResidualArc(v, c, st.iter[v])]
             a2 == [a1 EXCEPT ![st.iter[v]] = ResidualArc(u, 0, st.iter[u])]
             i1 == [st.iter EXCEPT ![u] = @ + 1]
             i2 == [i1 EXCEPT ![v] = @ + 1]
         IN  Let([adjlist |-> a2, iter |-> i2, fwd |-> Append(st.fwd, st.iter[u])],
                 LAMBDA nxt : fill_adjlist(net, k + 1, nxt))

\* ResidualNetwork::ResidualNetwork
ResidualNetwork(net) ==
    Let(adjlist_iter(net), LAMBDA it :
      Let(fill_adjlist(net, 1,
              [adjlist |-> [i \in 1 .. 2 * net.m |-> ResidualArc(0, 0, 0)],
               iter    |-> it,
               fwd     |-> << >>]),
          LAMBDA filled :
            [n |-> net.n, m |-> 2 * net.m, source |-> net.source, sink |-> net.sink,
             adjlist |-> filled.adjlist,
             arcs_out_span |->
                 [u \in Nodes(net) |-> [first |-> it[u], last |-> it[u + 1]]],
             fwd |-> filled.fwd,
             overdrawn |-> FALSE]))

\* a ResidualNetwork not constructed yet
NoNetwork ==
    [n |-> 0, m |-> 0, source |-> 0, sink |-> 0, adjlist |-> << >>,
     arcs_out_span |-> << >>, fwd |-> << >>, overdrawn |-> FALSE]

\* a Flow not returned yet
NoFlow == [value |-> 0, flow_arcs |-> << >>, reads |-> << >>]

RECURSIVE flow_arcs_loop_tail_only(_, _, _, _)
flow_arcs_loop_tail_only(net, R, k, st) ==
    IF k > Len(net.arcs) THEN st
    ELSE LET u == net.arcs[k].tail
             f == R.adjlist[R.adjlist[st.current_arc[u]].twin].residual_capacity
         IN  Let([flow_arcs   |-> Append(st.flow_arcs, f),
                  current_arc |-> [st.current_arc EXCEPT ![u] = @ + 1],
                  reads       |-> Append(st.reads, st.current_arc[u])],
                 LAMBDA nxt : flow_arcs_loop_tail_only(net, R, k + 1, nxt))

\* the loop of get_flow_arcs, from arc k on.  st.reads is a history
\* sequence: the position current_arc[u] pointed at when arc k was processed.
RECURSIVE flow_arcs_loop(_, _, _, _)
flow_arcs_loop(net, R, k, st) ==
    IF k > Len(net.arcs) THEN st
    ELSE LET u  == net.arcs[k].tail
             v  == net.arcs[k].head
             f  == R.adjlist[R.adjlist[st.current_arc[u]].twin].residual_capacity
             c1 == [st.current_arc EXCEPT ![u] = @ + 1]
             c2 == [c1 EXCEPT ![v] = @ + 1]
         IN  Let([flow_arcs   |-> Append(st.flow_arcs, f),
                  current_arc |-> c2,
                  reads       |-> Append(st.reads, st.current_arc[u])],
                 LAMBDA nxt : flow_arcs_loop(net, R, k + 1, nxt))

get_flow_arcs(net, R) ==
    flow_arcs_loop(net, R, 1,
        [flow_arcs   |-> << >>,
         current_arc |-> [u \in 0 .. (R.n - 1) |-> R.arcs_out_span[u].first],
         reads       |-> << >>])

\* the Flow a solver returns: {maxflow, get_flow_arcs(network, rnetwork)}
Flow(value, net, R) ==
    Let(get_flow_arcs(net, R), LAMBDA g :
        [value |-> value, flow_arcs |-> g.flow_arcs, reads |-> g.reads])

---------------------------------------------------------------------------
(* edmonds_karp. *)

\* a search that follows each vertex it discovers at once, depth first
RECURSIVE ek_bfs_arcs_depth_first(_, _, _, _)
ek_bfs_arcs_depth_first(R, st, a, e) ==
    IF a = e THEN st
    ELSE LET arc == R.adjlist[a]
         IN  IF st.pred[arc.head] = 0 /\ is_residual(arc) /\ arc.head # R.source
             THEN IF arc.head = R.sink
                  THEN [st EXCEPT !.pred[arc.head] = a, !.found = TRUE]
                  ELSE Let(ek_bfs_arcs_depth_first(R, [st EXCEPT !.pred[arc.head] = a],
                               R.arcs_out_span[arc.head].first,
                               R.arcs_out_span[arc.head].last),
                           LAMBDA r : IF r.found THEN r
                                      ELSE ek_bfs_arcs_depth_first(R, r, a + 1, e))
             ELSE ek_bfs_arcs_depth_first(R, st, a + 1, e)

\* the inner loop of bfs_find_augmenting_path over the arcs a .. of *u
RECURSIVE ek_bfs_arcs(_, _, _, _)
ek_bfs_arcs(R, st, a, e) ==
    IF a = e THEN st
    ELSE LET arc == R.adjlist[a]
         IN  IF st.pred[arc.head] = 0 /\ is_residual(arc) /\ arc.head # R.source
             THEN IF arc.head = R.sink
                  THEN [st EXCEPT !.pred[arc.head] = a, !.found = TRUE]
                  ELSE Let([st EXCEPT !.pred[arc.head] = a,
                                      !.bfs_ordering[st.last] = arc.head,
                                      !.last = @ + 1],
                           LAMBDA nxt : ek_bfs_arcs(R, nxt, a + 1, e))
             ELSE ek_bfs_arcs(R, st, a + 1, e)

\* the outer loop, from position i of bfs_ordering on
RECURSIVE ek_bfs_nodes(_, _, _)
ek_bfs_nodes(R, st, i) ==
    IF i = st.last THEN st
    ELSE Let(ek_bfs_arcs(R, st, R.arcs_out_span[st.bfs_ordering[i]].first,
                                R.arcs_out_span[st.bfs_ordering[i]].last),
             LAMBDA r : IF r.found THEN r ELSE ek_bfs_nodes(R, r, i + 1))

\* bfs_find_augmenting_path; its result is found
bfs_find_augmenting_path(R, bfs_ordering) ==
    ek_bfs_nodes(R,
        [bfs_ordering |-> bfs_ordering,
         pred         |-> [v \in 0 .. (R.n - 1) |-> 0],
         last         |-> 1,
         found        |-> FALSE],
        0)

\* the arcs visited by "for (arc = pred[sink]; arc != nullptr;
\* arc = pred[arc->tail()])", from arc a on
RECURSIVE pred_walk(_, _, _)
pred_walk(R, pred, a) ==
    IF a = 0 THEN << >>
    ELSE Let(pred[tail(R, a)], LAMBDA nxt : << a >> \o pred_walk(R, pred, nxt))

\* the first loop of the body
RECURSIVE min_over(_, _, _, _)
min_over(R, path, k, acc) ==
    IF k > Len(path) THEN acc
    ELSE Let(Min(acc, R.adjlist[path[k]].residual_capacity),
             LAMBDA nxt : min_over(R, path, k + 1, nxt))

min_residual_capacity(R, pred) ==
    Let(pred_walk(R, pred, pred[R.sink]), LAMBDA path :
        min_over(R, path, 1, R.adjlist[pred[R.sink]].residual_capacity))

\* the second loop of the body
RECURSIVE push_over(_, _, _, _)
push_over(R, path, k, flow) ==
    IF k > Len(path) THEN R
    ELSE Let(push_flow(R, path[k], flow),
             LAMBDA nxt : push_over(nxt, path, k + 1, flow))

\* a second loop that stops one arc early: "pred[arc->tail()] != nullptr"
augment_stops_early(R, pred, flow) ==
    Let(pred_walk(R, pred, pred[R.sink]), LAMBDA path :
        push_over(R, SubSeq(path, 1, Len(path) - 1), 1, flow))

\* the second loop of the body, pushing flow along the path pred holds
augment(R, pred, flow) ==
    Let(pred_walk(R, pred, pred[R.sink]), LAMBDA path : push_over(R, path, 1, flow))

---------------------------------------------------------------------------
(* DinitzCherkassky. *)

reset_current_arc(R) == [u \in 0 .. (R.n - 1) |-> R.arcs_out_span[u].first]

\* a layering that tests the arc itself and not its twin
RECURSIVE dc_bfs_arcs_own_arc(_, _, _, _, _)
dc_bfs_arcs_own_arc(R, st, u, a, e) ==
    IF a = e THEN st
    ELSE LET arc == R.adjlist[a]
         IN  IF st.rank[arc.head] = Unreached /\ is_residual(arc)
             THEN Let([st EXCEPT !.rank[arc.head] = Wrap(st.rank[u] + 1),
                                 !.bfs_ordering[st.last] = arc.head,
                                 !.last = @ + 1],
                      LAMBDA nxt : dc_bfs_arcs_own_arc(R, nxt, u, a + 1, e))
             ELSE dc_bfs_arcs_own_arc(R, st, u, a + 1, e)

\* the inner loop of bfs_compute_rank over the arcs a .. of *u
RECURSIVE dc_bfs_arcs(_, _, _, _, _)
dc_bfs_arcs(R, st, u, a, e) ==
    IF a = e THEN st
    ELSE LET arc == R.adjlist[a]
         IN  IF st.rank[arc.head] = Unreached /\ is_residual(R.adjlist[arc.twin])
             THEN Let([st EXCEPT !.rank[arc.head] = Wrap(st.rank[u] + 1),
                                 !.bfs_ordering[st.last] = arc.head,
                                 !.last = @ + 1],
                      LAMBDA nxt : dc_bfs_arcs(R, nxt, u, a + 1, e))
             ELSE dc_bfs_arcs(R, st, u, a + 1, e)

\* the outer loop, from position i of bfs_ordering on
RECURSIVE dc_bfs_nodes(_, _, _)
dc_bfs_nodes(R, st, i) ==
    IF i = st.last THEN st
    ELSE Let(dc_bfs_arcs(R, st, st.bfs_ordering[i],
                         R.arcs_out_span[st.bfs_ordering[i]].first,
                         R.arcs_out_span[st.bfs_ordering[i]].last),
             LAMBDA nxt : dc_bfs_nodes(R, nxt, i + 1))

\* bfs_compute_rank; its result is rank[source] # Unreached
bfs_compute_rank(R, bfs_ordering) ==
    dc_bfs_nodes(R,
        [bfs_ordering |-> bfs_ordering,
         rank         |-> [v \in 0 .. (R.n - 1) |-> IF v = R.sink THEN 0 ELSE Unreached],
         last         |-> 1],
        0)

\* dfs_phase_loop(u, flow) on st = [R, current_arc]; the result is the
\* flow returned, with R and current_arc as the call left them
RECURSIVE dfs_phase_loop(_, _, _, _)
RECURSIVE dfs_arcs(_, _, _, _)
RECURSIVE dfs_arcs_always_advances(_, _, _, _)
RECURSIVE dfs_arcs_without_push(_, _, _, _)

\* a loop whose "++current_arc[u]" also runs when the arc carried flow
dfs_arcs_always_advances(st, rank, u, flow) ==
    IF st.current_arc[u] = st.R.arcs_out_span[u].last
    THEN [df |-> 0, R |-> st.R, current_arc |-> st.current_arc]
    ELSE LET a   == st.current_arc[u]
             arc == st.R.adjlist[a]
         IN  IF rank[u] = Wrap(rank[arc.head] + 1) /\ is_residual(arc)
             THEN Let(dfs_phase_loop(st, rank, arc.head, Min(flow, arc.residual_capacity)),
                      LAMBDA r :
                        IF r.df > 0
                        THEN [df |-> r.df, R |-> push_flow(r.R, a, r.df),
                              current_arc |-> [r.current_arc EXCEPT ![u] = @ + 1]]
                        ELSE Let([R |-> r.R,
                                  current_arc |-> [r.current_arc EXCEPT ![u] = @ + 1]],
                                 LAMBDA nxt : dfs_arcs_always_advances(nxt, rank, u, flow)))
             ELSE Let([st EXCEPT !.current_arc[u] = @ + 1],
                      LAMBDA nxt : dfs_arcs_always_advances(nxt, rank, u, flow))

\* a loop that returns df without "arc.push_flow(df)"
dfs_arcs_without_push(st, rank, u, flow) ==
    IF st.current_arc[u] = st.R.arcs_out_span[u].last
    THEN [df |-> 0, R |-> st.R, current_arc |-> st.current_arc]
    ELSE LET a   == st.current_arc[u]
             arc == st.R.adjlist[a]
         IN  IF rank[u] = Wrap(rank[arc.head] + 1) /\ is_residual(arc)
             THEN Let(dfs_phase_loop(st, rank, arc.head, Min(flow, arc.residual_capacity)),
                      LAMBDA r :
                        IF r.df > 0
                        THEN [df |-> r.df, R |-> r.R, current_arc |-> r.current_arc]
                        ELSE Let([R |-> r.R,
                                  current_arc |-> [r.current_arc EXCEPT ![u] = @ + 1]],
                                 LAMBDA nxt : dfs_arcs_without_push(nxt, rank, u, flow)))
             ELSE Let([st EXCEPT !.current_arc[u] = @ + 1],
                      LAMBDA nxt : dfs_arcs_without_push(nxt, rank, u, flow))

\* the for loop of dfs_phase_loop
dfs_arcs(st, rank, u, flow) ==
    IF st.current_arc[u] = st.R.arcs_out_span[u].last
    THEN [df |-> 0, R |-> st.R, current_arc |-> st.current_arc]
    ELSE LET a   == st.current_arc[u]
             arc == st.R.adjlist[a]
         IN  IF rank[u] = Wrap(rank[arc.head] + 1) /\ is_residual(arc)
             THEN Let(dfs_phase_loop(st, rank, arc.head, Min(flow, arc.residual_capacity)),
                      LAMBDA r :
                        IF r.df > 0
                        THEN [df |-> r.df, R |-> push_flow(r.R, a, r.df),
                              current_arc |-> r.current_arc]
                        ELSE Let([R |-> r.R,
                                  current_arc |-> [r.current_arc EXCEPT ![u] = @ + 1]],
                                 LAMBDA nxt : dfs_arcs(nxt, rank, u, flow)))
             ELSE Let([st EXCEPT !.current_arc[u] = @ + 1],
                      LAMBDA nxt : dfs_arcs(nxt, rank, u, flow))

\* a first line that reads "flow == 0 and u == rnetwork.sink"
dfs_phase_loop_and(st, rank, u, flow) ==
    IF flow = 0 /\ u = st.R.sink
    THEN [df |-> flow, R |-> st.R, current_arc |-> st.current_arc]
    ELSE dfs_arcs(st, rank, u, flow)

dfs_phase_loop(st, rank, u, flow) ==
    IF flow = 0 \/ u = st.R.sink
    THEN [df |-> flow, R |-> st.R, current_arc |-> st.current_arc]
    ELSE dfs_arcs(st, rank, u, flow)

---------------------------------------------------------------------------
(* The run: edmonds_karp(network), then DinitzCherkassky{network}(). *)

Init ==
    /\ IsInput(network)
    /\ pc = "ek_enter"
    /\ ek_rnetwork = NoNetwork
    /\ ek_bfs_ordering = << >>
    /\ ek_pred = << >>
    /\ ek_maxflow = 0
    /\ ek_result = NoFlow
    /\ dc_rnetwork = NoNetwork
    /\ dc_current_arc = << >>
    /\ dc_rank = << >>
    /\ dc_bfs_ordering = << >>
    /\ dc_maxflow = 0
    /\ dc_df = 0
    /\ dc_result = NoFlow
    /\ phases = 0

\* edmonds_karp up to its loop: rnetwork, bfs_ordering, pred, maxflow
EKEnter ==
    /\ pc = "ek_enter"
    /\ ek_rnetwork' = ResidualNetwork(network)
    /\ ek_bfs_ordering' = [i \in 0 .. (network.n - 1) |->
                              IF i = 0 THEN network.source ELSE 0]
    /\ ek_pred' = [v \in 0 .. (network.n - 1) |-> 0]
    /\ ek_maxflow' = 0
    /\ pc' = "ek_loop"
    /\ UNCHANGED <<network, ek_result, dc_vars>>

\* the loop condition: bfs_find_augmenting_path()
EKBfs ==
    /\ pc = "ek_loop"
    /\ \E r \in {bfs_find_augmenting_path(ek_rnetwork, ek_bfs_ordering)} :
           /\ ek_bfs_ordering' = r.bfs_ordering
           /\ ek_pred' = r.pred
           /\ pc' = IF r.found THEN "ek_augment" ELSE "ek_return"
    /\ UNCHANGED <<network, ek_rnetwork, ek_maxflow, ek_result, dc_vars>>

\* the loop body: the bottleneck, the pushes along the path, the sum
EKAugment ==
    /\ pc = "ek_augment"
    /\ \E flow \in {min_residual_capacity(ek_rnetwork, ek_pred)} :
           /\ ek_rnetwork' = augment(ek_rnetwork, ek_pred, flow)
           /\ ek_maxflow' = Wrap(ek_maxflow + flow)
    /\ pc' = "ek_loop"
    /\ UNCHANGED <<network, ek_bfs_ordering, ek_pred, ek_result, dc_vars>>

\* return {maxflow, get_flow_arcs(network, rnetwork)}
EKReturn ==
    /\ pc = "ek_return"
    /\ ek_result' = Flow(ek_maxflow, network, ek_rnetwork)
    /\ pc' = "dc_enter"
    /\ UNCHANGED <<network, ek_rnetwork, ek_bfs_ordering, ek_pred, ek_maxflow, dc_vars>>

\* DinitzCherkassky::DinitzCherkassky, and operator() up to its loop
DCEnter ==
    /\ pc = "dc_enter"
    /\ dc_rnetwork' = ResidualNetwork(network)
    /\ dc_current_arc' = [u \in 0 .. (network.n - 1) |-> 0]
    /\ dc_rank' = [u \in 0 .. (network.n - 1) |-> 0]
    /\ dc_bfs_ordering' = [i \in 0 .. (network.n - 1) |->
                              IF i = 0 THEN network.sink ELSE 0]
    /\ dc_maxflow' = 0
    /\ pc' = "dc_loop"
    /\ UNCHANGED <<network, ek_vars, dc_df, dc_result, phases>>

\* the condition of the while loop, bfs_compute_rank(), and when it holds
\* reset_current_arc() and the initialisation of the for loop
DCRank ==
    /\ pc = "dc_loop"
    /\ \E r \in {bfs_compute_rank(dc_rnetwork, dc_bfs_ordering)} :
           /\ dc_rank' = r.rank
           /\ dc_bfs_ordering' = r.bfs_ordering
           /\ IF r.rank[dc_rnetwork.source] # Unreached
              THEN /\ dc_current_arc' = reset_current_arc(dc_rnetwork)
                   /\ dc_df' = InfiniteFlow
                   /\ phases' = phases + 1
                   /\ pc' = "dc_dfs"
              ELSE /\ pc' = "dc_return"
                   /\ UNCHANGED <<dc_current_arc, dc_df, phases>>
    /\ UNCHANGED <<network, ek_vars, dc_rnetwork, dc_maxflow, dc_result>>

\* one turn of "for (df = InfiniteFlow; df; maxflow += df)
\*                  df = dfs_phase_loop(source, InfiniteFlow)"
\* entered with df # 0: the body, the increment and the next test
DCDfs ==
    /\ pc = "dc_dfs"
    /\ \E r \in {dfs_phase_loop([R |-> dc_rnetwork, current_arc |-> dc_current_arc],
                                dc_rank, dc_rnetwork.source, InfiniteFlow)} :
           /\ dc_rnetwork' = r.R
           /\ dc_current_arc' = r.current_arc
           /\ dc_df' = r.df
           /\ dc_maxflow' = Wrap(dc_maxflow + r.df)
           /\ pc' = IF r.df # 0 THEN "dc_dfs" ELSE "dc_loop"
    /\ UNCHANGED <<network, ek_vars, dc_rank, dc_bfs_ordering, dc_result, phases>>

\* return {maxflow, get_flow_arcs(network, rnetwork)}
DCReturn ==
    /\ pc = "dc_return"
    /\ dc_result' = Flow(dc_maxflow, network, dc_rnetwork)
    /\ pc' = "done"
    /\ UNCHANGED <<network, ek_vars, dc_rnetwork, dc_current_arc, dc_rank,
                   dc_bfs_ordering, dc_maxflow, dc_df, phases>>

Next ==
    \/ EKEnter
    \/ EKBfs
    \/ EKAugment
    \/ EKReturn
    \/ DCEnter
    \/ DCRank
    \/ DCDfs
    \/ DCReturn

Spec == Init /\ [][Next]_vars

\* each solver call runs to completion: a step that can be taken is taken
FairSpec == Spec /\ WF_vars(Next)

---------------------------------------------------------------------------
(* Notions the properties are stated with.  They are defined on the graph  *)
(* the arena represents and use none of the solvers' operators.            *)

Valid == ValidNetwork(network)

ArcIds(net) == 1 .. Len(net.arcs)

ArcsOut(R, u) == R.arcs_out_span[u].first .. (R.arcs_out_span[u].last - 1)

\* the node whose range holds position a
Owner(R, a) == CHOOSE u \in 0 .. (R.n - 1) : a \in ArcsOut(R, u)

RECURSIVE SumOver(_, _)
SumOver(f, S) ==
    IF S = {} THEN 0
    ELSE LET x == CHOOSE y \in S : TRUE IN f[x] + SumOver(f, S \ {x})

FlowInto(net, flow_arcs, v) ==
    SumOver(flow_arcs, {k \in ArcIds(net) : net.arcs[k].head = v})

FlowOutOf(net, flow_arcs, v) ==
    SumOver(flow_arcs, {k \in ArcIds(net) : net.arcs[k].tail = v})

\* the vertices a set S of vertices reaches over the arcs at the positions
\* in usable
RECURSIVE Closure(_, _, _)
Closure(R, S, usable) ==
    LET T == S \cup { R.adjlist[a].head : a \in { b \in usable : Owner(R, b) \in S } }
    IN  IF T = S THEN S ELSE Closure(R, T, usable)

\* the sink is reachable from the source over positive-residual arcs
ResidualPath(R) ==
    R.sink \in Closure(R, {R.source},
                       { a \in 1 .. R.m : R.adjlist[a].residual_capacity > 0 })

\* the sink is reachable from the source over admissible arcs
AdmissiblePath(R, rank) ==
    R.sink \in Closure(R, {R.source},
                       { a \in 1 .. R.m :
                           /\ R.adjlist[a].residual_capacity > 0
                           /\ rank[Owner(R, a)] = rank[R.adjlist[a].head] + 1 })

\* the fewest arcs of a positive-residual path from the source to the sink
\* (-1: there is none), by levels
RECURSIVE LevelSearch(_, _, _, _)
LevelSearch(R, seen, frontier, d) ==
    IF R.sink \in frontier THEN d
    ELSE IF frontier = {} THEN -1
    ELSE LET nxt == { R.adjlist[a].head :
                        a \in { b \in UNION { ArcsOut(R, u) : u \in frontier } :
                                  R.adjlist[b].residual_capacity > 0 } } \ seen
         IN  LevelSearch(R, seen \cup nxt, nxt, d + 1)

ShortestLength(R) == LevelSearch(R, {R.source}, {R.source}, 0)

\* the augmenting path pred holds, from the sink back to the source
PredPath(R, pred) == pred_walk(R, pred, pred[R.sink])

\* PredPath is a path of positive-residual arcs from the source to the sink
IsAugmentingPath(R, path) ==
    /\ Len(path) > 0
    /\ R.adjlist[path[1]].head = R.sink
    /\ Owner(R, path[Len(path)]) = R.source
    /\ \A k \in 1 .. Len(path) : R.adjlist[path[k]].residual_capacity > 0
    /\ \A k \in 1 .. (Len(path) - 1) : Owner(R, path[k]) = R.adjlist[path[k + 1]].head

EKReturned == pc \in {"dc_enter", "dc_loop", "dc_dfs", "dc_return", "done"}

DCReturned == pc = "done"

EKBuilt == pc # "ek_enter"

DCBuilt == pc \in {"dc_loop", "dc_dfs", "dc_return", "done"}

Conserves(net, flow_arcs) ==
    \A v \in Nodes(net) \ {net.source, net.sink} :
        FlowInto(net, flow_arcs, v) = FlowOutOf(net, flow_arcs, v)

NetOutOfSource(net, flow_arcs) ==
    FlowOutOf(net, flow_arcs, net.source) - FlowInto(net, flow_arcs, net.source)

NetIntoSink(net, flow_arcs) ==
    FlowInto(net, flow_arcs, net.sink) - FlowOutOf(net, flow_arcs, net.sink)

---------------------------------------------------------------------------
(* The properties. *)

\* C1: on every valid network, the value edmonds_karp returns equals the
\* value DinitzCherkassky's operator() returns.
C1_ValueAgreement ==
    (DCReturned /\ Valid) => ek_result.value = dc_result.value

\* both solvers have returned a positive flow on a valid network that needed
\* more than one Dinitz phase
C1_Witness ==
    /\ DCReturned /\ Valid
    /\ phases >= 2
    /\ ek_result.value > 0
    /\ ek_result.value = dc_result.value

\* C2: when either solver returns on a valid network, its residual network
\* holds no source-to-sink path of positive-residual arcs; on the worked
\* example the value returned is 19.
C2_NoAugmentingPathLeft ==
    /\ (EKReturned /\ Valid) => ~ResidualPath(ek_rnetwork)
    /\ (DCReturned /\ Valid) => ~ResidualPath(dc_rnetwork)
    /\ (EKReturned /\ network = minimal_example) => ek_result.value = 19
    /\ (DCReturned /\ network = minimal_example) => dc_result.value = 19

\* both solvers have returned on a valid network whose sink the source
\* reached before any flow was pushed
C2_Witness ==
    /\ DCReturned /\ Valid
    /\ ResidualPath(ResidualNetwork(network))
    /\ ~ResidualPath(ek_rnetwork)
    /\ ~ResidualPath(dc_rnetwork)

\* C3: in the Flow either solver returns on a valid network, at every
\* vertex but the source and the sink the flow on the arcs in equals the
\* flow on the arcs out.
C3_FlowConservation ==
    /\ (EKReturned /\ Valid) => Conserves(network, ek_result.flow_arcs)
    /\ (DCReturned /\ Valid) => Conserves(network, dc_result.flow_arcs)

\* both solvers have returned, and some inner vertex carries flow
C3_Witness ==
    /\ DCReturned /\ Valid
    /\ \E v \in Nodes(network) \ {network.source, network.sink} :
          /\ FlowInto(network, ek_result.flow_arcs, v) > 0
          /\ FlowInto(network, dc_result.flow_arcs, v) > 0
    /\ Conserves(network, ek_result.flow_arcs)
    /\ Conserves(network, dc_result.flow_arcs)

\* the twin pair of every arc shares out the arc's capacity, and no push
\* asked for more than the residual capacity of the arc it was applied to
PairsKeepCapacity(net, R) ==
    /\ ~R.overdrawn
    /\ \A k \in ArcIds(net) :
          LET a == R.fwd[k]
          IN  R.adjlist[a].residual_capacity
                + R.adjlist[R.adjlist[a].twin].residual_capacity
              = net.arcs[k].capacity

WithinCapacity(net, flow_arcs) ==
    \A k \in ArcIds(net) : 0 <= flow_arcs[k] /\ flow_arcs[k] <= net.arcs[k].capacity

\* C4: after every augmentation (Edmonds-Karp) and every DFS call (Dinitz)
\* each twin pair's residual capacities add up to the arc's capacity and no
\* push exceeded the residual capacity it was applied to; the flow returned
\* on every arc lies between 0 and the arc's capacity.
C4_CapacityBound ==
    /\ EKBuilt => PairsKeepCapacity(network, ek_rnetwork)
    /\ DCBuilt => PairsKeepCapacity(network, dc_rnetwork)
    /\ EKReturned => WithinCapacity(network, ek_result.flow_arcs)
    /\ DCReturned => WithinCapacity(network, dc_result.flow_arcs)

\* both solvers have returned a flow that fills one arc and only partly
\* fills another
C4_Witness ==
    /\ DCReturned /\ Valid
    /\ \E j, k \in ArcIds(network) :
          /\ ek_result.flow_arcs[j] = network.arcs[j].capacity
          /\ dc_result.flow_arcs[j] > 0
          /\ 0 < ek_result.flow_arcs[k]
          /\ ek_result.flow_arcs[k] < network.arcs[k].capacity
          /\ 0 < dc_result.flow_arcs[k]
          /\ dc_result.flow_arcs[k] < network.arcs[k].capacity

ValueIsNetFlow(net, result) ==
    /\ result.value = NetOutOfSource(net, result.flow_arcs)
    /\ result.value = NetIntoSink(net, result.flow_arcs)

\* C5: on a valid network whose capacities are each representable in
\* flow_t, the value either solver returns equals the net flow out of the
\* source and the net flow into the sink.
C5_ValueIsNetFlow ==
    /\ (EKReturned /\ Valid) => ValueIsNetFlow(network, ek_result)
    /\ (DCReturned /\ Valid) => ValueIsNetFlow(network, dc_result)

\* what get_flow_arcs read for arc k is the forward copy the constructor
\* wrote for arc k, and the flow reported is the flow that copy carries
ReadsForwardCopy(net, R, result) ==
    \A k \in ArcIds(net) :
        LET a  == result.reads[k]
            tw == R.adjlist[a].twin
        IN  /\ a = R.fwd[k]
            /\ a \in ArcsOut(R, net.arcs[k].tail)
            /\ R.adjlist[a].head = net.arcs[k].head
            /\ tw \in ArcsOut(R, net.arcs[k].head)
            /\ R.adjlist[tw].head = net.arcs[k].tail
            /\ R.adjlist[tw].twin = a
            /\ result.flow_arcs[k] = R.adjlist[tw].residual_capacity
            /\ result.flow_arcs[k]
                 = net.arcs[k].capacity - R.adjlist[a].residual_capacity

\* C6: on every valid network, when get_flow_arcs processes arc i its cursor
\* points at the forward copy the constructor wrote for arc i, whose twin is
\* the backward copy in the head's range, and flow_arcs[i] is the flow arc i
\* carries.
C6_FlowArcsAligned ==
    /\ (EKReturned /\ Valid) => ReadsForwardCopy(network, ek_rnetwork, ek_result)
    /\ (DCReturned /\ Valid) => ReadsForwardCopy(network, dc_rnetwork, dc_result)

\* both solvers have returned on a network with two parallel arcs that
\* carry different flows, or with two arcs in opposite directions of which
\* the later one carries flow
C6_Witness ==
    /\ DCReturned /\ Valid
    /\ \E j, k \in ArcIds(network) :
          /\ j < k
          /\ \/ /\ network.arcs[j].tail = network.arcs[k].tail
                /\ network.arcs[j].head = network.arcs[k].head
                /\ ek_result.flow_arcs[j] # ek_result.flow_arcs[k]
                /\ dc_result.flow_arcs[j] # dc_result.flow_arcs[k]
             \/ /\ network.arcs[j].tail = network.arcs[k].head
                /\ network.arcs[j].head = network.arcs[k].tail
                /\ ek_result.flow_arcs[k] > 0
                /\ dc_result.flow_arcs[k] > 0

\* C7: on every valid network both solvers terminate: the run reaches the
\* state in which edmonds_karp and operator() have each returned a Flow.
C7_Terminates == Valid => <>DCReturned

\* both solvers have returned after two augmentations and two phases at
\* least
C7_Witness ==
    /\ DCReturned /\ Valid
    /\ phases >= 2
    /\ Len(ek_result.flow_arcs) = network.m
    /\ Len(dc_result.flow_arcs) = network.m
    /\ ek_result.value >= 2

C8_Blocking ==
    (pc = "dc_loop" /\ phases >= 1) => ~AdmissiblePath(dc_rnetwork, dc_rank)

C8_PhaseBound == phases <= network.n

C8_RankGrows ==
    (pc = "dc_loop" /\ phases >= 1 /\ pc' # "dc_loop")
        => dc_rank'[network.source] > dc_rank[network.source]

\* C8: when the DFS loop of a phase ends no source-to-sink path of
\* admissible arcs remains, the rank of the source computed at the start of
\* each phase is greater than the rank of the preceding phase, and there
\* are at most n phases.
C8_PhasesAdvance ==
    /\ [](C8_Blocking /\ C8_PhaseBound)
    /\ [][C8_RankGrows]_vars

\* a second phase has begun, its source rank above the first phase's, on a
\* network where the first phase pushed flow
C8_Witness ==
    /\ pc = "dc_dfs" /\ phases = 2 /\ dc_df = InfiniteFlow
    /\ dc_maxflow > 0
    /\ dc_rank[network.source] > 2
    /\ network.source # network.sink

C9_Shortest ==
    pc = "ek_augment" =>
        /\ IsAugmentingPath(ek_rnetwork, PredPath(ek_rnetwork, ek_pred))
        /\ Len(PredPath(ek_rnetwork, ek_pred)) = ShortestLength(ek_rnetwork)

C9_LengthsGrow ==
    (pc = "ek_loop" /\ pc' = "ek_augment" /\ ek_pred[network.sink] # 0)
        => Len(PredPath(ek_rnetwork', ek_pred')) >= Len(PredPath(ek_rnetwork, ek_pred))

\* C9: every path bfs_find_augmenting_path returns is a shortest
\* source-to-sink path of positive-residual arcs, and the lengths of
\* successive augmenting paths never decrease.
C9_ShortestPaths ==
    /\ []C9_Shortest
    /\ [][C9_LengthsGrow]_vars

\* an augmenting path of more than three arcs has been found after a
\* shorter one was augmented
C9_Witness ==
    /\ pc = "ek_augment"
    /\ ek_maxflow > 0
    /\ Len(PredPath(ek_rnetwork, ek_pred)) > 3
    /\ Len(PredPath(ek_rnetwork, ek_pred)) = ShortestLength(ek_rnetwork)

C10_EdmondsKarpZero ==
    network.source = network.sink =>
        /\ pc # "ek_augment"
        /\ EKBuilt => ek_rnetwork = ResidualNetwork(network)
        /\ ek_maxflow = 0
        /\ EKReturned =>
              /\ ek_result.value = 0
              /\ Len(ek_result.flow_arcs) = network.m
              /\ \A k \in ArcIds(network) : ek_result.flow_arcs[k] = 0

C10_DinitzNeverReturns ==
    network.source = network.sink =>
        /\ pc \notin {"dc_return", "done"}
        /\ pc = "dc_dfs" => dc_df = InfiniteFlow /\ dc_rank[network.source] = 0

C10_DinitzKeepsLooping ==
    (network.source = network.sink /\ pc \in {"dc_loop", "dc_dfs"})
        => pc' = "dc_dfs"

\* C10: with source = sink, edmonds_karp finds no path, pushes no flow and
\* returns value 0 with all-zero flow_arcs, and operator() never returns:
\* the source is always ranked, every dfs_phase_loop(source, InfiniteFlow)
\* returns InfiniteFlow, and the inner loop is never left.
C10_SourceIsSink ==
    /\ [](C10_EdmondsKarpZero /\ C10_DinitzNeverReturns)
    /\ [][C10_DinitzKeepsLooping]_vars

\* with source = sink on a network with arcs, edmonds_karp has returned 0
\* and the inner loop of operator() has run often enough for maxflow to wrap
C10_Witness ==
    /\ network.source = network.sink
    /\ network.m > 0
    /\ ek_result.value = 0
    /\ pc = "dc_dfs"
    /\ dc_df = InfiniteFlow
    /\ dc_maxflow = 1

=============================================================================
